---------------------------- MODULE Spec2Model ----------------------------
(***************************************************************************)
(* Model of src/commands/difutil_check.rs: the `difutil check` command.    *)
(*                                                                         *)
(* One invocation of execute() is followed from its arguments to its       *)
(* result.  The file on disk is described by what each of the two format   *)
(* adapters (MachoInfo::open_path, proguard::MappingView::from_path)       *)
(* answers when it is opened on it; the command line by the clap matches.  *)
(***************************************************************************)
EXTENDS Naturals, Sequences, FiniteSets

(***************************************************************************)
(* Bounds of the model.                                                    *)
(***************************************************************************)
\* Number of distinct build identifiers (UUIDs) a file may carry.
NumUuids == 2

Uuids == 1..NumUuids

\* Architecture names a Mach-O slice may be labelled with.
CpuNames == {"arm64", "x86_64"}

(***************************************************************************)
(* Option<T>: None is the empty tuple, Some(x) the one-element tuple.      *)
(***************************************************************************)
None == <<>>
Some(x) == <<x>>

(***************************************************************************)
(* Paths are sequences of characters, so that Path::extension is computed  *)
(* and not assumed.  Paths here never end in a separator.                  *)
(***************************************************************************)
PathNames ==
    { <<"a", ".", "t", "x", "t">>,            \* a.txt
      <<".", "t", "x", "t">>,                 \* .txt   (hidden file, no extension)
      <<"a", ".", "T", "X", "T">>,            \* a.TXT
      <<"a", ".", "t", "x", "t", "x">>,       \* a.txtx
      <<"t", "x", "t">>,                      \* txt    (no dot)
      <<"a", ".", "b", ".", "t", "x", "t">>,  \* a.b.txt
      <<"d", ".", "t", "x", "t", "/", "a">>,  \* d.txt/a
      <<"a", ".">> }                          \* a.     (empty extension)

RECURSIVE LastIndexOf(_, _, _)
\* Greatest i <= n with s[i] = c, or 0.
LastIndexOf(s, c, n) ==
    IF n = 0 THEN 0
    ELSE IF s[n] = c THEN n
    ELSE LastIndexOf(s, c, n - 1)

\* Path::file_name: the last component of the path.
FileName(p) ==
    LET i == LastIndexOf(p, "/", Len(p))
    IN  SubSeq(p, i + 1, Len(p))

\* Path::extension: the part of the file name after its last dot; None when
\* there is no dot or when the only dot is the first character.
Extension(p) ==
    LET f == FileName(p)
        i == LastIndexOf(f, ".", Len(f))
    IN  IF i <= 1 THEN None ELSE Some(SubSeq(f, i + 1, Len(f)))

\* OsStr::new("txt")
OsStrTxt == <<"t", "x", "t">>

(***************************************************************************)
(* The adapters' answers.                                                  *)
(***************************************************************************)
\* Partial maps from UUID to architecture name: what get_architectures() holds.
ArchMaps == UNION { [D -> CpuNames] : D \in SUBSET Uuids }

MachoErr == [kind |-> "MachoError"]
ProguardErr == [kind |-> "ProguardError"]

\* Result<MachoInfo>
MachoResults ==
    { [ok |-> FALSE, err |-> MachoErr] }
    \cup { [ok |-> TRUE, mi |-> [architectures |-> a, has_debug_info |-> d]] :
             a \in ArchMaps, d \in BOOLEAN }

\* Result<proguard::MappingView>
ProguardResults ==
    { [ok |-> FALSE, err |-> ProguardErr] }
    \cup { [ok |-> TRUE, pg |-> [uuid |-> u, has_line_info |-> l]] :
             u \in Uuids, l \in BOOLEAN }

\* A file: what each adapter returns when opened on it.
Files == [macho : MachoResults, proguard : ProguardResults]

\* The clap matches: the path, the optional --type value, the --json flag.
TypeValues == {"dsym", "proguard"}
Matches == [path : PathNames, type : {None} \cup {Some(t) : t \in TypeValues},
            json : BOOLEAN]

(***************************************************************************)
(* DifRepr and its methods.                                                *)
(***************************************************************************)
Dsym(mi) == [arm |-> "Dsym", mi |-> mi]
Proguard(pg) == [arm |-> "Proguard", pg |-> pg]

ty(r) == IF r.arm = "Dsym" THEN "Dsym" ELSE "Proguard"

\* variants() with the architecture label of a Mach-O slice dropped.
variants_LabelDropped(r) ==
    IF r.arm = "Dsym"
    THEN [k \in DOMAIN r.mi.architectures |-> None]
    ELSE [k \in {r.pg.uuid} |-> None]

variants(r) ==
    IF r.arm = "Dsym"
    THEN [k \in DOMAIN r.mi.architectures |-> Some(r.mi.architectures[k])]
    ELSE [k \in {r.pg.uuid} |-> None]

is_usable(r) ==
    IF r.arm = "Dsym" THEN r.mi.has_debug_info ELSE r.pg.has_line_info

\* get_problem() with the Dsym arm of the description match unreached.
get_problem_DsymSilent(r) ==
    IF is_usable(r) \/ r.arm = "Dsym" THEN None
    ELSE Some("missing line information")

get_problem(r) ==
    IF is_usable(r) THEN None
    ELSE Some(IF r.arm = "Dsym" THEN "missing DWARF debug info"
              ELSE "missing line information")

RECURSIVE BTreeKeys(_)
\* The keys of a BTreeMap in iteration (ascending) order.
BTreeKeys(S) ==
    IF S = {} THEN <<>>
    ELSE LET m == CHOOSE x \in S : \A y \in S : x <= y
         IN  <<m>> \o BTreeKeys(S \ {m})

\* A BTreeMap iterated: its (key, value) pairs in ascending key order.
BTreeIter(m) ==
    LET ks == BTreeKeys(DOMAIN m)
    IN  [i \in 1..Len(ks) |-> <<ks[i], m[ks[i]]>>]

(***************************************************************************)
(* JSON values and the Serialize implementation.                           *)
(***************************************************************************)
JsonNull == [t |-> "null", v |-> "null"]
JsonString(s) == [t |-> "string", v |-> s]
JsonBool(b) == [t |-> "bool", v |-> b]
JsonOption(o) == IF o = None THEN JsonNull ELSE JsonString(o[1])
\* DifType's own Serialize: the format tag.
JsonDifType(t) == [t |-> "DifType", v |-> t]
JsonMap(m) ==
    LET it == BTreeIter(m)
    IN  [t |-> "object",
         v |-> [i \in 1..Len(it) |-> <<it[i][1], JsonOption(it[i][2])>>]]

\* serialize() emitting three fields, as its comment counts them.
serialize_ThreeFields(r) ==
    << <<"type", JsonDifType(ty(r))>>,
       <<"variants", JsonMap(variants(r))>>,
       <<"is_usable", JsonBool(is_usable(r))>> >>

serialize(r) ==
    << <<"type", JsonDifType(ty(r))>>,
       <<"variants", JsonMap(variants(r))>>,
       <<"is_usable", JsonBool(is_usable(r))>>,
       <<"problem", JsonOption(get_problem(r))>> >>

(***************************************************************************)
(* Results of execute.                                                     *)
(***************************************************************************)
Ok == [tag |-> "Ok", err |-> None]
Err(e) == [tag |-> "Err", err |-> Some(e)]
QuietExit(n) == [kind |-> "QuietExit", code |-> n]
Msg(s) == [kind |-> "Msg", msg |-> s]
JsonErr == [kind |-> "JsonError"]
\* A panic unwinds out of execute: no Result is returned.
Panicked == [tag |-> "Panic", err |-> None]

IsQuiet(res) == res.tag = "Err" /\ res.err[1].kind = "QuietExit"

(***************************************************************************)
(* State.                                                                  *)
(***************************************************************************)
VARIABLES
    matches,    \* the parsed command line
    file,       \* the file at the path
    stdout_ok,  \* whether writes to stdout succeed
    pc,         \* position in execute
    tyHint,     \* the local `ty`
    repr,       \* Option<DifRepr>: the local `repr` once constructed
    opens,      \* adapter opens so far, in order
    out,        \* what was written to stdout
    result      \* Option<Result<()>>: what execute returned

vars == <<matches, file, stdout_ok, pc, tyHint, repr, opens, out, result>>

Init ==
    /\ matches \in Matches
    /\ file \in Files
    /\ stdout_ok \in BOOLEAN
    /\ pc = "start"
    /\ tyHint = None
    /\ repr = None
    /\ opens = <<>>
    /\ out = <<>>
    /\ result = None

\* The --type match with its two arms swapped.
ParseType_Swapped(t) ==
    IF t = None THEN None
    ELSE IF t[1] = "dsym" THEN Some("Proguard")
    ELSE Some("Dsym")

\* The match on the --type value.
ParseType(t) ==
    IF t = None THEN None
    ELSE IF t[1] = "dsym" THEN Some("Dsym")
    ELSE Some("Proguard")

\* The guard with && in place of ||.
GuardAccepts_Both(path, pg) ==
    Extension(path) = Some(OsStrTxt) /\ pg.has_line_info

\* The disambiguation guard of autodetection.
GuardAccepts(path, pg) ==
    Extension(path) = Some(OsStrTxt) \/ pg.has_line_info

\* MachoInfo::open_path / MappingView::from_path on the file.
MachoOpenPath(f) == f.macho
ProguardFromPath(f) == f.proguard

Opened(adapter, r) == [adapter |-> adapter, ok |-> r.ok]

\* let path = ...; let ty = ...
ParseArgs ==
    /\ pc = "start"
    /\ tyHint' = ParseType(matches.type)
    /\ pc' = "construct"
    /\ UNCHANGED <<matches, file, stdout_ok, repr, opens, out, result>>

\* Some(DifType::Dsym) => DifRepr::Dsym(MachoInfo::open_path(&path)?)
HintedDsym ==
    /\ pc = "construct"
    /\ tyHint = Some("Dsym")
    /\ LET r == MachoOpenPath(file)
       IN  /\ opens' = Append(opens, Opened("macho", r))
           /\ IF r.ok
              THEN /\ repr' = Some(Dsym(r.mi))
                   /\ pc' = "report"
                   /\ UNCHANGED result
              ELSE /\ result' = Some(Err(r.err))
                   /\ pc' = "done"
                   /\ UNCHANGED repr
    /\ UNCHANGED <<matches, file, stdout_ok, tyHint, out>>

\* Some(DifType::Proguard) => DifRepr::Proguard(MappingView::from_path(&path)?)
HintedProguard ==
    /\ pc = "construct"
    /\ tyHint = Some("Proguard")
    /\ LET r == ProguardFromPath(file)
       IN  /\ opens' = Append(opens, Opened("proguard", r))
           /\ IF r.ok
              THEN /\ repr' = Some(Proguard(r.pg))
                   /\ pc' = "report"
                   /\ UNCHANGED result
              ELSE /\ result' = Some(Err(r.err))
                   /\ pc' = "done"
                   /\ UNCHANGED repr
    /\ UNCHANGED <<matches, file, stdout_ok, tyHint, out>>

\* Autodetection that takes a Mach-O file only when it has debug info.
AutoMacho_UsableOnly ==
    /\ pc = "construct"
    /\ tyHint = None
    /\ LET r == MachoOpenPath(file)
       IN  /\ opens' = Append(opens, Opened("macho", r))
           /\ IF r.ok /\ r.mi.has_debug_info
              THEN /\ repr' = Some(Dsym(r.mi))
                   /\ pc' = "report"
              ELSE /\ pc' = "auto_proguard"
                   /\ UNCHANGED repr
    /\ UNCHANGED <<matches, file, stdout_ok, tyHint, out, result>>

\* Autodetection that opens both adapters up front.
AutoMacho_OpensBoth ==
    /\ pc = "construct"
    /\ tyHint = None
    /\ LET r == MachoOpenPath(file)
           q == ProguardFromPath(file)
       IN  /\ opens' = opens \o <<Opened("macho", r), Opened("proguard", q)>>
           /\ IF r.ok
              THEN /\ repr' = Some(Dsym(r.mi))
                   /\ pc' = "report"
                   /\ UNCHANGED result
              ELSE IF q.ok /\ GuardAccepts(matches.path, q.pg)
              THEN /\ repr' = Some(Proguard(q.pg))
                   /\ pc' = "report"
                   /\ UNCHANGED result
              ELSE /\ result' = Some(Err(IF q.ok THEN Msg("invalid debug info file")
                                         ELSE q.err))
                   /\ pc' = "done"
                   /\ UNCHANGED repr
    /\ UNCHANGED <<matches, file, stdout_ok, tyHint, out>>

\* None => if let Ok(mi) = MachoInfo::open_path(&path) { DifRepr::Dsym(mi) } else ...
AutoMacho ==
    /\ pc = "construct"
    /\ tyHint = None
    /\ LET r == MachoOpenPath(file)
       IN  /\ opens' = Append(opens, Opened("macho", r))
           /\ IF r.ok
              THEN /\ repr' = Some(Dsym(r.mi))
                   /\ pc' = "report"
              ELSE /\ pc' = "auto_proguard"
                   /\ UNCHANGED repr
    /\ UNCHANGED <<matches, file, stdout_ok, tyHint, out, result>>

\* Autodetection answering a failed mapping parse with the generic message.
AutoProguard_GenericOnErr ==
    /\ pc = "auto_proguard"
    /\ LET r == ProguardFromPath(file)
       IN  /\ opens' = Append(opens, Opened("proguard", r))
           /\ IF r.ok /\ GuardAccepts(matches.path, r.pg)
              THEN /\ repr' = Some(Proguard(r.pg))
                   /\ pc' = "report"
                   /\ UNCHANGED result
              ELSE /\ result' = Some(Err(Msg("invalid debug info file")))
                   /\ pc' = "done"
                   /\ UNCHANGED repr
    /\ UNCHANGED <<matches, file, stdout_ok, tyHint, out>>

\* ... else { match proguard::MappingView::from_path(&path) { ... } }
AutoProguard ==
    /\ pc = "auto_proguard"
    /\ LET r == ProguardFromPath(file)
       IN  /\ opens' = Append(opens, Opened("proguard", r))
           /\ IF r.ok
              THEN IF GuardAccepts(matches.path, r.pg)
                   THEN /\ repr' = Some(Proguard(r.pg))
                        /\ pc' = "report"
                        /\ UNCHANGED result
                   ELSE /\ result' = Some(Err(Msg("invalid debug info file")))
                        /\ pc' = "done"
                        /\ UNCHANGED repr
              ELSE /\ result' = Some(Err(r.err))
                   /\ pc' = "done"
                   /\ UNCHANGED repr
    /\ UNCHANGED <<matches, file, stdout_ok, tyHint, out>>

\* The --json verdict ignoring usability.
JsonVerdict_AlwaysOk(r) == Ok

\* The verdict of the --json branch.
JsonVerdict(r) == IF is_usable(r) THEN Ok ELSE Err(QuietExit(1))

\* The verdict of the text branch.
TextVerdict(r) == IF get_problem(r) # None THEN Err(QuietExit(1)) ELSE Ok

\* if matches.is_present("json") { ... }
ReportJson ==
    /\ pc = "report"
    /\ matches.json
    /\ IF stdout_ok
       THEN /\ out' = out \o << [kind |-> "json", body |-> serialize(repr[1])],
                               [kind |-> "line", body |-> <<>>] >>
            /\ result' = Some(JsonVerdict(repr[1]))
       ELSE /\ out' = out
            /\ result' = Some(Err(JsonErr))
    /\ pc' = "done"
    /\ UNCHANGED <<matches, file, stdout_ok, tyHint, repr, opens>>

\* The lines of the text report.
TextReport(r) ==
    LET it == BTreeIter(variants(r))
        line(b) == [kind |-> "line", body |-> b]
    IN  << line(<<"Debug Info File Check">>),
           line(<<"Type", ty(r)>>),
           line(<<"Contained UUIDs">>) >>
        \o [i \in 1..Len(it) |->
              IF it[i][2] # None
              THEN line(<<"uuid", it[i][1], it[i][2][1]>>)
              ELSE line(<<"uuid", it[i][1]>>)]
        \o << IF get_problem(r) # None
              THEN line(<<"Usable", "no", get_problem(r)[1]>>)
              ELSE line(<<"Usable", "yes">>) >>

\* The text branch: println! panics when stdout cannot be written.
ReportText ==
    /\ pc = "report"
    /\ ~matches.json
    /\ IF stdout_ok
       THEN /\ out' = out \o TextReport(repr[1])
            /\ result' = Some(TextVerdict(repr[1]))
       ELSE /\ out' = out
            /\ result' = Some(Panicked)
    /\ pc' = "done"
    /\ UNCHANGED <<matches, file, stdout_ok, tyHint, repr, opens>>

Next ==
    \/ ParseArgs
    \/ HintedDsym
    \/ HintedProguard
    \/ AutoMacho
    \/ AutoProguard
    \/ ReportJson
    \/ ReportText

Spec == Init /\ [][Next]_vars


(***************************************************************************)
(* Properties.                                                             *)
(***************************************************************************)
Done == pc = "done"
\* execute is past the construction of `repr` (it succeeded or returned).
Decided == pc \in {"report", "done"}
NoHint == matches.type = None
\* The paths of PathNames whose extension is exactly "txt".
TxtPaths == { <<"a", ".", "t", "x", "t">>, <<"a", ".", "b", ".", "t", "x", "t">> }
InvalidFile == Some(Err(Msg("invalid debug info file")))
\* The report (JSON document or text) has been written to stdout.
ReportWritten == out # <<>>
AdaptersOpened == [i \in 1..Len(opens) |-> opens[i].adapter]

\* C1: without a hint, when the Mach-O adapter fails and the mapping adapter
\* succeeds, the file is accepted as Proguard iff its extension is exactly
\* "txt" or the mapping has line info; otherwise execute fails with
\* "invalid debug info file", constructs no representation and reports
\* nothing.  A ".txt" mapping without line info is Proguard and not usable.
C1_GuardDecides ==
    (NoHint /\ ~file.macho.ok /\ file.proguard.ok /\ Decided) =>
        LET pg == file.proguard.pg
            accept == matches.path \in TxtPaths \/ pg.has_line_info
        IN  /\ accept =>
                /\ repr = Some(Proguard(pg))
                /\ ty(repr[1]) = "Proguard"
                /\ is_usable(repr[1]) = pg.has_line_info
                /\ result # InvalidFile
            /\ ~accept =>
                /\ repr = None
                /\ pc = "done"
                /\ result = InvalidFile
                /\ out = <<>>

\* Scenario C: a ".txt" mapping without line info went through autodetection.
C1_Witness ==
    /\ NoHint /\ ~file.macho.ok /\ file.proguard.ok /\ Done
    /\ matches.path \in TxtPaths
    /\ ~file.proguard.pg.has_line_info
    /\ repr # None /\ repr[1].arm = "Proguard" /\ ~is_usable(repr[1])

\* C2: for every representation execute constructs, get_problem() is
\* Some(description) iff is_usable() is false, the description being the
\* fixed message of the representation's arm.
C2_ProblemIffUnusable ==
    repr # None =>
        LET r == repr[1]
            unusable == IF r.arm = "Dsym" THEN ~file.macho.mi.has_debug_info
                        ELSE ~file.proguard.pg.has_line_info
        IN  /\ is_usable(r) = ~unusable
            /\ (get_problem(r) # None) <=> ~is_usable(r)
            /\ unusable /\ r.arm = "Dsym" =>
                   get_problem(r) = Some("missing DWARF debug info")
            /\ unusable /\ r.arm = "Proguard" =>
                   get_problem(r) = Some("missing line information")

\* A Mach-O file without debug info was constructed and reported.
C2_Witness ==
    /\ Done /\ repr # None /\ repr[1].arm = "Dsym"
    /\ ~is_usable(repr[1]) /\ get_problem(repr[1]) # None

\* C3: variants() is never empty for a representation execute constructs:
\* an adapter answer without any build identifier is a construction failure.
C3_VariantsNeverEmpty ==
    repr # None => DOMAIN variants(repr[1]) # {}

C5_HintOnlyHintedAdapter ==
    (~NoHint /\ Decided) =>
        LET dsym == matches.type = Some("dsym")
            ans == IF dsym THEN file.macho ELSE file.proguard
        IN  /\ opens = << Opened(IF dsym THEN "macho" ELSE "proguard", ans) >>
            /\ ans.ok =>
                   /\ repr = Some(IF dsym THEN Dsym(ans.mi) ELSE Proguard(ans.pg))
                   /\ ty(repr[1]) = (IF dsym THEN "Dsym" ELSE "Proguard")
                   /\ result # InvalidFile
            /\ ~ans.ok =>
                   /\ repr = None /\ pc = "done"
                   /\ result = Some(Err(ans.err))
                   /\ out = <<>>

\* A hinted Proguard file the guard would have rejected was accepted, on a
\* file the Mach-O adapter would have opened.
C5_Witness ==
    /\ matches.type = Some("proguard") /\ Done
    /\ matches.path \notin TxtPaths
    /\ file.macho.ok /\ file.proguard.ok /\ ~file.proguard.pg.has_line_info
    /\ repr # None /\ repr[1].arm = "Proguard"

\* C6: without a hint, a file the Mach-O adapter opens is classified as Dsym
\* whatever has_debug_info, the extension and the mapping adapter's answer
\* are; it is never rejected nor taken as Proguard, and the mapping adapter
\* is not opened.
C6_MachoFirst ==
    (NoHint /\ file.macho.ok /\ Decided) =>
        /\ repr = Some(Dsym(file.macho.mi))
        /\ ty(repr[1]) = "Dsym"
        /\ AdaptersOpened = <<"macho">>
        /\ Done => (result # None /\ result # InvalidFile
                    /\ (result[1].tag = "Err" =>
                          result[1].err[1] \notin {MachoErr, ProguardErr}))

\* An unusable Mach-O file that is also a usable ".txt" mapping was taken as Dsym.
C6_Witness ==
    /\ NoHint /\ Done /\ file.macho.ok /\ ~file.macho.mi.has_debug_info
    /\ file.proguard.ok /\ file.proguard.pg.has_line_info
    /\ matches.path \in TxtPaths
    /\ repr # None /\ repr[1].arm = "Dsym"

\* C7 (as claimed): without a hint, when both adapters fail the outcome is
\* the generic "invalid debug info file" error, as when the guard rejects.
C7_BothFailGeneric ==
    (NoHint /\ ~file.macho.ok /\ ~file.proguard.ok /\ Done) =>
        result = InvalidFile

\* C7 (amended): without a hint, when both adapters fail the outcome is the
\* mapping adapter's own error, a non-quiet failure with no representation
\* and no report; the generic "invalid debug info file" error is returned
\* exactly when the guard rejects a parsed mapping.
C7_BothFailAdapterError ==
    Done =>
        /\ (NoHint /\ ~file.macho.ok /\ ~file.proguard.ok) =>
               /\ result = Some(Err(ProguardErr))
               /\ ~IsQuiet(result[1])
               /\ repr = None /\ out = <<>>
        /\ (result = InvalidFile) <=>
               /\ NoHint /\ ~file.macho.ok /\ file.proguard.ok
               /\ matches.path \notin TxtPaths
               /\ ~file.proguard.pg.has_line_info

\* Autodetection ran on a file neither adapter opens.
C7_Witness ==
    /\ NoHint /\ Done /\ ~file.macho.ok /\ ~file.proguard.ok
    /\ AdaptersOpened = <<"macho", "proguard">>
    /\ result = Some(Err(ProguardErr))

\* C8: a Dsym representation's variants() has one entry per slice that
\* get_architectures() reports, keyed by the slice's UUID and labelled with
\* the slice's architecture; a Proguard representation's variants() has
\* exactly one entry, keyed by the mapping's uuid(), without a label.
C8_VariantsShape ==
    repr # None =>
        LET r == repr[1]
            v == variants(r)
        IN  IF r.arm = "Dsym"
            THEN LET archs == file.macho.mi.architectures
                 IN  /\ Cardinality(DOMAIN v) = Cardinality(DOMAIN archs)
                     /\ DOMAIN v = DOMAIN archs
                     /\ \A k \in DOMAIN v :
                            v[k] # None /\ v[k] = Some(archs[k])
            ELSE /\ Cardinality(DOMAIN v) = 1
                 /\ DOMAIN v = {file.proguard.pg.uuid}
                 /\ \A k \in DOMAIN v : v[k] = None

\* A Mach-O file with two slices of different architectures was constructed.
C8_Witness ==
    /\ Done /\ repr # None /\ repr[1].arm = "Dsym"
    /\ Cardinality(DOMAIN variants(repr[1])) = 2
    /\ \E j, k \in DOMAIN variants(repr[1]) :
           variants(repr[1])[j] # variants(repr[1])[k]

\* The JSON document written to stdout, when there is one.
Document == out[1].body

C10_OpensOrdered ==
    /\ Len(opens) <= 2
    /\ \A i, j \in 1..Len(opens) :
           opens[i].adapter = opens[j].adapter => i = j
    /\ (NoHint /\ opens # <<>>) =>
           /\ opens[1] = Opened("macho", file.macho)
           /\ Len(opens) = 2 =>
                  /\ ~opens[1].ok
                  /\ opens[2] = Opened("proguard", file.proguard)
    /\ (NoHint /\ Decided) =>
           Len(opens) = (IF file.macho.ok THEN 1 ELSE 2)
    /\ (~NoHint /\ Decided) => Len(opens) = 1

\* Autodetection opened the Mach-O adapter, which failed, then the mapping adapter.
C10_Witness ==
    /\ NoHint /\ Done
    /\ opens = <<Opened("macho", file.macho), Opened("proguard", file.proguard)>>
    /\ ~file.macho.ok /\ file.proguard.ok

=============================================================================
